---- MODULE Spec2Model ----
(***************************************************************************)
(* State-machine model of the chat relay in src/unnamed/part_000: the     *)
(* in-memory registry (clients, rooms, nextUserId), the JSON store file,  *)
(* and one action per WebSocket callback / message-handler branch.        *)
(*                                                                         *)
(* Strings are sequences of one-character strings so that trim(), sort()  *)
(* and join() are computed as the code computes them.  A socket is        *)
(* identified with the id the connection handler assigns to it.           *)
(***************************************************************************)
EXTENDS Naturals, Sequences, FiniteSets

VARIABLES
    clients,      \* Map ws -> meta, in insertion order: Seq of [id, username, room, typing]
    rooms,        \* Map roomName -> Set(ws), in insertion order: Seq of [name, members]
    nextUserId,   \* let nextUserId
    db,           \* content of DB_FILE: [rooms: key -> log, dms: key -> log]
    crashed,      \* TRUE once an exception escaped a callback (the process is gone)
    event,        \* the callback that ran last: [kind, ws, data]
    sent,         \* what that callback passed to ws.send, in order: Seq of [to, msg]
    appended      \* history: every entry ever pushed under each store key

vars == <<clients, rooms, nextUserId, db, crashed, event, sent, appended>>

-----------------------------------------------------------------------------
(* Bounds of the exploration.                                              *)

\* connections accepted over the life of the process
MaxConn == 2
\* entries pushed to the store over the life of the process
MaxMsgs == 1
\* the same two bounds where the store is explored
MaxStoreConn == 2
MaxPushes == 3
\* connections where direct messages are explored
MaxDmConn == 3
\* largest value Date.now() returns
MaxClock == 1
\* the retention cap of lines 199 and 221 (2000 in the code), scaled so that
\* an overflow is reachable; the handlers are parametric in it
HistoryCap == 2
\* the slice(-200) of lines 124 and 169
HistoryTail == 200

-----------------------------------------------------------------------------
(* JavaScript values.                                                      *)

\* undefined (an absent property) and null: neither is a string of characters
Undefined == <<"<undefined>">>
Null == <<"<null>">>

Lobby == <<"l", "o", "b", "b", "y">>
UndefinedStr == <<"u", "n", "d", "e", "f", "i", "n", "e", "d">>
UserPrefix == <<"U", "s", "e", "r">>
Sep == <<"|">>

\* UTF-16 code units of the characters the model's strings are made of
CodeTable ==
    << <<" ", 32>>, <<"0", 48>>, <<"1", 49>>, <<"2", 50>>, <<"3", 51>>,
       <<"4", 52>>, <<"5", 53>>, <<"6", 54>>, <<"7", 55>>, <<"8", 56>>,
       <<"9", 57>>, <<"U", 85>>, <<"a", 97>>, <<"b", 98>>, <<"c", 99>>,
       <<"d", 100>>, <<"e", 101>>, <<"f", 102>>, <<"g", 103>>, <<"i", 105>>,
       <<"l", 108>>, <<"n", 110>>, <<"o", 111>>, <<"r", 114>>, <<"s", 115>>,
       <<"u", 117>>, <<"y", 121>>, <<"|", 124>> >>

CharCode(c) == CodeTable[CHOOSE i \in 1..Len(CodeTable) : CodeTable[i][1] = c][2]

\* the truthiness test of `x || y` and `!x` on undefined, null and strings
Truthy(v) == v # Undefined /\ v # Null /\ v # <<>>

\* String(v)
String(v) == IF v = Undefined THEN UndefinedStr ELSE v

IsSpace(c) == c = " "

RECURSIVE TrimStart(_)
TrimStart(s) ==
    IF s # <<>> /\ IsSpace(Head(s)) THEN TrimStart(Tail(s)) ELSE s

RECURSIVE TrimEnd(_)
TrimEnd(s) ==
    IF s # <<>> /\ IsSpace(s[Len(s)]) THEN TrimEnd(SubSeq(s, 1, Len(s) - 1)) ELSE s

\* String.prototype.trim
Trim(s) == TrimEnd(TrimStart(s))

\* decimal digits of a number, as `${n}` prints it
RECURSIVE Decimal(_)
Decimal(n) ==
    LET d == <<CodeTable[2 + (n % 10)][1]>>
    IN  IF n < 10 THEN d ELSE Decimal(n \div 10) \o d

\* `User${meta.id}`
UserN(id) == UserPrefix \o Decimal(id)

\* a < b in the order of the default sort comparator (by code units)
RECURSIVE StrLess(_, _)
StrLess(a, b) ==
    IF b = <<>> THEN FALSE
    ELSE IF a = <<>> THEN TRUE
    ELSE IF CharCode(Head(a)) # CharCode(Head(b))
         THEN CharCode(Head(a)) < CharCode(Head(b))
         ELSE StrLess(Tail(a), Tail(b))

\* [x, y].sort()
SortPair(x, y) == IF StrLess(y, x) THEN <<y, x>> ELSE <<x, y>>

\* arr.join(sep)
RECURSIVE Join(_, _)
Join(arr, sep) ==
    IF arr = <<>> THEN <<>>
    ELSE IF Len(arr) = 1 THEN arr[1]
    ELSE arr[1] \o sep \o Join(Tail(arr), sep)

\* arr.slice(-n)
SliceLast(arr, n) ==
    IF Len(arr) <= n THEN arr ELSE SubSeq(arr, Len(arr) - n + 1, Len(arr))

Range(s) == {s[i] : i \in 1..Len(s)}

-----------------------------------------------------------------------------
(* The two Maps and the Set of sockets, kept in insertion order.           *)

\* Set.prototype.add: an element already present keeps its place
SetAdd(members, ws) ==
    IF ws \in Range(members) THEN members ELSE Append(members, ws)

\* Set.prototype.delete
RECURSIVE SetDelete(_, _)
SetDelete(members, ws) ==
    IF members = <<>> THEN <<>>
    ELSE IF Head(members) = ws THEN Tail(members)
    ELSE <<Head(members)>> \o SetDelete(Tail(members), ws)

\* clients.has(ws), clients.get(ws)
ClientsHas(cl, ws) == \E i \in 1..Len(cl) : cl[i].id = ws
ClientsGet(cl, ws) == cl[CHOOSE i \in 1..Len(cl) : cl[i].id = ws]

\* assignment to a field of the meta object clients.get(ws) returned
ClientsPut(cl, ws, meta) ==
    [i \in 1..Len(cl) |-> IF cl[i].id = ws THEN meta ELSE cl[i]]

\* (variant: the close handler without its clients.delete)
ClientsKeep(cl, ws) == cl

\* clients.delete(ws)
RECURSIVE ClientsDelete(_, _)
ClientsDelete(cl, ws) ==
    IF cl = <<>> THEN <<>>
    ELSE IF Head(cl).id = ws THEN Tail(cl)
    ELSE <<Head(cl)>> \o ClientsDelete(Tail(cl), ws)

\* rooms.has(name), rooms.get(name), Array.from(rooms.keys())
RoomsHas(rm, name) == \E i \in 1..Len(rm) : rm[i].name = name
RoomsGet(rm, name) == rm[CHOOSE i \in 1..Len(rm) : rm[i].name = name].members
RoomsKeys(rm) == [i \in 1..Len(rm) |-> rm[i].name]

\* if (!rooms.has(room)) rooms.set(room, new Set())
RoomsEnsure(rm, name) ==
    IF RoomsHas(rm, name) THEN rm ELSE Append(rm, [name |-> name, members |-> <<>>])

\* rooms.get(name).add(ws)
RoomsAdd(rm, name, ws) ==
    [i \in 1..Len(rm) |->
        IF rm[i].name = name
        THEN [rm[i] EXCEPT !.members = SetAdd(@, ws)] ELSE rm[i]]

\* rooms.get(name).delete(ws)
RoomsDelete(rm, name, ws) ==
    [i \in 1..Len(rm) |->
        IF rm[i].name = name
        THEN [rm[i] EXCEPT !.members = SetDelete(@, ws)] ELSE rm[i]]

-----------------------------------------------------------------------------
(* The store file.  JSON.stringify followed by JSON.parse gives back the   *)
(* same strings, numbers, arrays and plain objects, which is all the file  *)
(* holds, so the file content is modelled by the object written to it.     *)

NoKeys == [k \in {} |-> <<>>]

\* { rooms: {}, dms: {} }
EmptyDB == [rooms |-> NoKeys, dms |-> NoKeys]

\* readDB(): the parsed file
ReadDB == db

\* obj[key] = value on a plain object
ObjPut(obj, key, value) ==
    [k \in DOMAIN obj \cup {key} |-> IF k = key THEN value ELSE obj[k]]

\* obj[key] || []
ObjLog(obj, key) == IF key \in DOMAIN obj THEN obj[key] ELSE <<>>

\* if (!d.rooms[room]) d.rooms[room] = []
DbEnsureRoom(d, room) ==
    IF room \in DOMAIN d.rooms THEN d ELSE [d EXCEPT !.rooms = ObjPut(@, room, <<>>)]

\* (variant: pop() in place of shift())
PushCappedPop(log, entry) ==
    LET pushed == Append(log, entry)
    IN  IF Len(pushed) > HistoryCap THEN SubSeq(pushed, 1, Len(pushed) - 1) ELSE pushed

\* log.push(entry); if (log.length > 2000) log.shift()
PushCapped(log, entry) ==
    LET pushed == Append(log, entry)
    IN  IF Len(pushed) > HistoryCap THEN Tail(pushed) ELSE pushed

\* (variant: the key built without sort())
DmKeyUnsorted(a, b) == Join(<<a, b>>, Sep)

\* const key = [meta.username, to].sort().join("|") of the dm branch
DmKey(a, b) == Join(SortPair(a, b), Sep)

\* const key = [req.params.userA, req.params.userB].sort().join("|") of GET /dm
HttpDmKey(userA, userB) == Join(SortPair(userA, userB), Sep)

-----------------------------------------------------------------------------
(* Sending.                                                                *)

\* ws.readyState === ws.OPEN: a socket is open from its connection event to
\* its close event, which is when the registry holds it
IsOpen(cl, ws) == ClientsHas(cl, ws)

\* safeSend(ws, obj)
SafeSend(cl, ws, obj) ==
    IF IsOpen(cl, ws) THEN <<[to |-> ws, msg |-> obj]>> ELSE <<>>

RECURSIVE SendEach(_, _, _)
SendEach(cl, targets, obj) ==
    IF targets = <<>> THEN <<>>
    ELSE SafeSend(cl, Head(targets), obj) \o SendEach(cl, Tail(targets), obj)

\* broadcastToRoom(roomName, obj)
BroadcastToRoom(rm, cl, roomName, obj) ==
    IF ~RoomsHas(rm, roomName) THEN <<>>
    ELSE SendEach(cl, RoomsGet(rm, roomName), obj)

\* broadcastToAll(obj)
BroadcastToAll(cl, obj) == SendEach(cl, [i \in 1..Len(cl) |-> cl[i].id], obj)

\* Array.from(clients.values()).filter(u => u.username).map(u => ({username, room}))
RECURSIVE UsersList(_)
UsersList(cl) ==
    IF cl = <<>> THEN <<>>
    ELSE (IF Truthy(Head(cl).username)
          THEN <<[username |-> Head(cl).username, room |-> Head(cl).room]>>
          ELSE <<>>) \o UsersList(Tail(cl))

Joined == <<" ", "j", "o", "i", "n", "e", "d", " ">>
Left == <<" ", "l", "e", "f", "t", " ">>
Disconnected == <<" ", "d", "i", "s", "c", "o", "n", "n", "e", "c", "t", "e", "d">>

WelcomeMsg == [type |-> "welcome", message |-> "Welcome! Please send {type:'login', username}"]
ErrorMsg(text) == [type |-> "error", message |-> text]
NotificationMsg(text) == [type |-> "notification", text |-> text]
PresenceMsg(users) == [type |-> "presence", users |-> users]
RoomListMsg(keys) == [type |-> "room_list", rooms |-> keys]
HistoryMsg(room, messages) == [type |-> "history", room |-> room, messages |-> messages]

-----------------------------------------------------------------------------
(* Inbound payloads: text JSON.parse throws on, the JSON text `null`, or   *)
(* an object; an absent property reads as undefined.                       *)

NoData ==
    [json |-> "none", type |-> "undefined", username |-> Undefined, room |-> Undefined,
     text |-> Undefined, to |-> Undefined, isTyping |-> FALSE]
Invalid == [NoData EXCEPT !.json = "invalid"]
JsonNull == [NoData EXCEPT !.json = "null"]
Obj(type) == [NoData EXCEPT !.json = "object", !.type = type]

Kinds == {"login", "create_room", "join_room", "leave_room", "message", "dm",
          "typing", "history"}

Init ==
    /\ clients = <<>>
    /\ rooms = <<>>
    /\ nextUserId = 1
    /\ db = EmptyDB
    /\ crashed = FALSE
    /\ event = [kind |-> "listen", ws |-> 0, data |-> NoData]
    /\ sent = <<>>
    /\ appended = EmptyDB

\* the lines every branch of ws.on("message") passes first: the payload parsed
\* to an object of this type and the socket is registered
Dispatched(ws, data, type) ==
    /\ ~crashed
    /\ ClientsHas(clients, ws)
    /\ data.json = "object"
    /\ data.type = type

\* (variant: the guard written meta.username === null)
LoggedInUnlessNull(ws) == ClientsGet(clients, ws).username # Null

\* if (!meta.username) { error; return }
LoggedIn(ws) == Truthy(ClientsGet(clients, ws).username)

Handled(ws, data) == event' = [kind |-> "message", ws |-> ws, data |-> data]

\* wss.on("connection")
Connection ==
    LET userId == nextUserId
        clients1 == Append(clients,
            [id |-> userId, username |-> Null, room |-> Null, typing |-> FALSE])
    IN  /\ ~crashed
        /\ nextUserId' = nextUserId + 1
        /\ clients' = clients1
        /\ sent' = SafeSend(clients1, userId, WelcomeMsg)
        /\ event' = [kind |-> "connection", ws |-> userId, data |-> NoData]
        /\ UNCHANGED <<rooms, db, crashed, appended>>

\* try { data = JSON.parse(raw) } catch (e) { return }
Unparseable(ws) ==
    /\ ~crashed
    /\ ClientsHas(clients, ws)
    /\ Handled(ws, Invalid)
    /\ sent' = <<>>
    /\ UNCHANGED <<clients, rooms, nextUserId, db, crashed, appended>>

\* JSON.parse("null") is null and data.type throws a TypeError no one catches:
\* the process ends; no callback runs after it
NullPayload(ws) ==
    /\ ~crashed
    /\ ClientsHas(clients, ws)
    /\ Handled(ws, JsonNull)
    /\ crashed' = TRUE
    /\ sent' = <<>>
    /\ UNCHANGED <<clients, rooms, nextUserId, db, appended>>

\* String(data.username || `User${meta.id}`).trim()
LoginName(meta, data) ==
    Trim(String(IF Truthy(data.username) THEN data.username ELSE UserN(meta.id)))

\* the rooms Map after the login branch
LoginRooms(rm, ws) == RoomsAdd(RoomsEnsure(rm, Lobby), Lobby, ws)

\* if (data.type === "login")
Login(ws, data) ==
    LET meta == ClientsGet(clients, ws)
        username == LoginName(meta, data)
        rooms1 == LoginRooms(rooms, ws)
        meta1 == [meta EXCEPT !.username = username, !.room = Lobby]
        clients1 == ClientsPut(clients, ws, meta1)
        db1 == DbEnsureRoom(ReadDB, Lobby)
        usersList == UsersList(clients1)
        roomsList == RoomsKeys(rooms1)
        roomMsgs == ObjLog(db1.rooms, meta1.room)
    IN  /\ Dispatched(ws, data, "login")
        /\ Handled(ws, data)
        /\ clients' = clients1
        /\ rooms' = rooms1
        /\ db' = db1
        /\ sent' =
              SafeSend(clients1, ws,
                  [type |-> "login_success", username |-> username,
                   users |-> usersList, rooms |-> roomsList, room |-> Lobby])
              \o SafeSend(clients1, ws,
                  HistoryMsg(meta1.room, SliceLast(roomMsgs, HistoryTail)))
              \o BroadcastToAll(clients1, PresenceMsg(usersList))
              \o BroadcastToRoom(rooms1, clients1, meta1.room,
                  NotificationMsg(username \o Joined \o meta1.room))
        /\ UNCHANGED <<nextUserId, crashed, appended>>

\* if (!meta.username) { safeSend(ws, error); return }
NotLoggedInReply(ws) == SafeSend(clients, ws, ErrorMsg("Please login first."))

LoginRequired(ws, data) ==
    /\ ~crashed
    /\ ClientsHas(clients, ws)
    /\ data.json = "object"
    /\ data.type # "login"
    /\ ~LoggedIn(ws)
    /\ Handled(ws, data)
    /\ sent' = NotLoggedInReply(ws)
    /\ UNCHANGED <<clients, rooms, nextUserId, db, crashed, appended>>

\* if (data.type === "create_room")
CreateRoom(ws, data) ==
    LET room == Trim(String(data.room))
        rooms1 == RoomsEnsure(rooms, room)
    IN  /\ Dispatched(ws, data, "create_room")
        /\ LoggedIn(ws)
        /\ Handled(ws, data)
        /\ IF room = <<>>
           THEN /\ sent' = <<>>
                /\ UNCHANGED <<rooms, db>>
           ELSE /\ rooms' = rooms1
                /\ db' = DbEnsureRoom(ReadDB, room)
                /\ sent' = BroadcastToAll(clients, RoomListMsg(RoomsKeys(rooms1)))
        /\ UNCHANGED <<clients, nextUserId, crashed, appended>>

\* (variant: a room whose last member leaves is removed from the directory)
LeaveRoomsPrune(rm, meta) ==
    IF Truthy(meta.room) /\ RoomsHas(rm, meta.room)
    THEN SelectSeq(RoomsDelete(rm, meta.room, meta.id),
                   LAMBDA e : e.name # meta.room \/ e.members # <<>>)
    ELSE rm

\* the "leave previous room" block shared by join_room and leave_room:
\* if (meta.room && rooms.has(meta.room)) rooms.get(meta.room).delete(ws)
LeaveRooms(rm, meta) ==
    IF Truthy(meta.room) /\ RoomsHas(rm, meta.room)
    THEN RoomsDelete(rm, meta.room, meta.id) ELSE rm

\* ... broadcastToRoom(meta.room, notification `${meta.username} left ${meta.room}`)
LeaveSends(rm, cl, meta) ==
    IF Truthy(meta.room) /\ RoomsHas(rm, meta.room)
    THEN BroadcastToRoom(LeaveRooms(rm, meta), cl, meta.room,
             NotificationMsg(meta.username \o Left \o meta.room))
    ELSE <<>>

\* if (data.type === "join_room")
JoinRoom(ws, data) ==
    LET meta == ClientsGet(clients, ws)
        room == Trim(String(data.room))
        rooms1 == LeaveRooms(rooms, meta)
        rooms2 == RoomsAdd(RoomsEnsure(rooms1, room), room, ws)
        clients1 == ClientsPut(clients, ws, [meta EXCEPT !.room = room])
        db1 == DbEnsureRoom(ReadDB, room)
    IN  /\ Dispatched(ws, data, "join_room")
        /\ LoggedIn(ws)
        /\ Handled(ws, data)
        /\ IF room = <<>>
           THEN /\ sent' = <<>>
                /\ UNCHANGED <<clients, rooms, db>>
           ELSE /\ rooms' = rooms2
                /\ clients' = clients1
                /\ db' = db1
                /\ sent' =
                      LeaveSends(rooms, clients, meta)
                      \o SafeSend(clients1, ws,
                          HistoryMsg(room, SliceLast(db1.rooms[room], HistoryTail)))
                      \o BroadcastToRoom(rooms2, clients1, room,
                          NotificationMsg(meta.username \o Joined \o room))
                      \o BroadcastToAll(clients1, RoomListMsg(RoomsKeys(rooms2)))
        /\ UNCHANGED <<nextUserId, crashed, appended>>

\* if (data.type === "leave_room")
LeaveRoom(ws, data) ==
    LET meta == ClientsGet(clients, ws)
        clients1 == ClientsPut(clients, ws, [meta EXCEPT !.room = Null])
    IN  /\ Dispatched(ws, data, "leave_room")
        /\ LoggedIn(ws)
        /\ Handled(ws, data)
        /\ rooms' = LeaveRooms(rooms, meta)
        /\ clients' = clients1
        /\ sent' = LeaveSends(rooms, clients, meta)
                   \o BroadcastToAll(clients1, PresenceMsg(UsersList(clients1)))
        /\ UNCHANGED <<nextUserId, db, crashed, appended>>

\* (variant: a session in no room posts to the default room)
MessageRoomOrLobby(meta, data) ==
    IF Truthy(data.room) THEN data.room
    ELSE IF Truthy(meta.room) THEN meta.room ELSE Lobby

\* const room = data.room || meta.room
MessageRoom(meta, data) == IF Truthy(data.room) THEN data.room ELSE meta.room

\* String(data.text || "")
TextOf(data) == String(IF Truthy(data.text) THEN data.text ELSE <<>>)

\* if (!room) { safeSend(ws, error "Not in a room"); return }
NoRoomReply(ws) == SafeSend(clients, ws, ErrorMsg("Not in a room"))

\* if (data.type === "message"); ts is what Date.now() returns
Message(ws, data, ts) ==
    LET meta == ClientsGet(clients, ws)
        room == MessageRoom(meta, data)
        text == TextOf(data)
        entry == [username |-> meta.username, text |-> text, ts |-> ts]
        d == ReadDB
    IN  /\ Dispatched(ws, data, "message")
        /\ LoggedIn(ws)
        /\ Handled(ws, data)
        /\ IF ~Truthy(room)
           THEN /\ sent' = NoRoomReply(ws)
                /\ UNCHANGED <<db, appended>>
           ELSE /\ db' = [d EXCEPT !.rooms =
                            ObjPut(d.rooms, room, PushCapped(ObjLog(d.rooms, room), entry))]
                /\ appended' = [appended EXCEPT !.rooms =
                            ObjPut(@, room, Append(ObjLog(@, room), entry))]
                /\ sent' = BroadcastToRoom(rooms, clients, room,
                             [type |-> "room_message", room |-> room,
                              username |-> meta.username, text |-> text, ts |-> ts])
        /\ UNCHANGED <<clients, rooms, nextUserId, crashed>>

\* (variant: the loop without its break, so the last match wins)
RECURSIVE FindLastByName(_, _)
FindLastByName(cl, to) ==
    IF cl = <<>> THEN 0
    ELSE IF cl[Len(cl)].username = to THEN cl[Len(cl)].id
    ELSE FindLastByName(SubSeq(cl, 1, Len(cl) - 1), to)

\* for (const [clientWs, m] of clients) if (m.username === to) { targetWs = clientWs; break }
\* 0 stands for the null targetWs starts as
RECURSIVE FindByName(_, _)
FindByName(cl, to) ==
    IF cl = <<>> THEN 0
    ELSE IF Head(cl).username = to THEN Head(cl).id
    ELSE FindByName(Tail(cl), to)

\* String(data.to || "").trim()
DmTarget(data) == Trim(String(IF Truthy(data.to) THEN data.to ELSE <<>>))

\* if (targetWs) safeSend(targetWs, m); safeSend(ws, m)
DmSends(cl, targetWs, ws, m) ==
    (IF targetWs # 0 THEN SafeSend(cl, targetWs, m) ELSE <<>>) \o SafeSend(cl, ws, m)

\* if (data.type === "dm")
Dm(ws, data, ts) ==
    LET meta == ClientsGet(clients, ws)
        to == DmTarget(data)
        text == TextOf(data)
        targetWs == FindByName(clients, to)
        key == DmKey(meta.username, to)
        entry == [from |-> meta.username, to |-> to, text |-> text, ts |-> ts]
        d == ReadDB
    IN  /\ Dispatched(ws, data, "dm")
        /\ LoggedIn(ws)
        /\ Handled(ws, data)
        /\ IF to = <<>>
           THEN /\ sent' = <<>>
                /\ UNCHANGED <<db, appended>>
           ELSE /\ db' = [d EXCEPT !.dms =
                            ObjPut(d.dms, key, PushCapped(ObjLog(d.dms, key), entry))]
                /\ appended' = [appended EXCEPT !.dms =
                            ObjPut(@, key, Append(ObjLog(@, key), entry))]
                /\ sent' = DmSends(clients, targetWs, ws,
                             [type |-> "dm_message", from |-> meta.username,
                              to |-> to, text |-> text, ts |-> ts])
        /\ UNCHANGED <<clients, rooms, nextUserId, crashed>>

\* if (data.type === "typing")
Typing(ws, data) ==
    LET meta == ClientsGet(clients, ws)
        isTyping == data.isTyping
        clients1 == ClientsPut(clients, ws, [meta EXCEPT !.typing = isTyping])
    IN  /\ Dispatched(ws, data, "typing")
        /\ LoggedIn(ws)
        /\ Handled(ws, data)
        /\ clients' = clients1
        /\ sent' = BroadcastToRoom(rooms, clients1, meta.room,
                     [type |-> "typing", room |-> meta.room,
                      username |-> meta.username, isTyping |-> isTyping])
        /\ UNCHANGED <<rooms, nextUserId, db, crashed, appended>>

\* if (data.type === "history")
History(ws, data) ==
    LET room == data.room
        d == ReadDB
    IN  /\ Dispatched(ws, data, "history")
        /\ LoggedIn(ws)
        /\ Handled(ws, data)
        /\ sent' = IF Truthy(room)
                   THEN SafeSend(clients, ws, HistoryMsg(room, ObjLog(d.rooms, room)))
                   ELSE SafeSend(clients, ws, ErrorMsg("room required"))
        /\ UNCHANGED <<clients, rooms, nextUserId, db, crashed, appended>>

\* a type no branch tests for: the handler falls off its end
UnknownKind(ws, data) ==
    /\ ~crashed
    /\ ClientsHas(clients, ws)
    /\ data.json = "object"
    /\ data.type \notin Kinds
    /\ LoggedIn(ws)
    /\ Handled(ws, data)
    /\ sent' = <<>>
    /\ UNCHANGED <<clients, rooms, nextUserId, db, crashed, appended>>

\* ws.on("close")
Close(ws) ==
    LET meta == ClientsGet(clients, ws)
        name == IF Truthy(meta.username) THEN meta.username ELSE UserN(meta.id)
        rooms1 == LeaveRooms(rooms, meta)
        clients1 == ClientsDelete(clients, ws)
    IN  /\ ~crashed
        /\ ClientsHas(clients, ws)
        /\ event' = [kind |-> "close", ws |-> ws, data |-> NoData]
        /\ rooms' = rooms1
        /\ clients' = clients1
        /\ sent' = BroadcastToAll(clients1, PresenceMsg(UsersList(clients1)))
                   \o (IF Truthy(meta.room)
                       THEN BroadcastToRoom(rooms1, clients1, meta.room,
                                NotificationMsg(name \o Disconnected))
                       ELSE <<>>)
        /\ UNCHANGED <<nextUserId, db, crashed, appended>>

-----------------------------------------------------------------------------
(* The inputs explored.                                                    *)

A == <<"a">>
G == <<"g">>
Hi == <<"h", "i">>

\* data.username of a login
RawNames == {Undefined, <<" ">>, <<" ", "a">>}
\* data.room of a create_room or join_room
RawRooms == {<<" ">>, G}
\* data.room of a message or history
RawTargetRooms == {Undefined, G}
\* data.to of a dm
RawTargets == {Undefined, <<" ", "a">>, UserN(1)}
\* data.text
RawTexts == {Hi}

Sockets == 1..MaxConn

RECURSIVE TotalLen(_)
TotalLen(obj) ==
    IF DOMAIN obj = {} THEN 0
    ELSE LET k == CHOOSE k \in DOMAIN obj : TRUE
         IN  Len(obj[k]) + TotalLen([j \in DOMAIN obj \ {k} |-> obj[j]])

\* entries pushed so far
Pushed == TotalLen(appended.rooms) + TotalLen(appended.dms)

\* the values Date.now() returns (a wall clock: not monotonic)
Clock == 0..MaxClock

Next ==
    \/ nextUserId <= MaxConn /\ Connection
    \/ \E ws \in Sockets : Unparseable(ws)
    \/ \E ws \in Sockets : NullPayload(ws)
    \/ \E ws \in Sockets, u \in RawNames :
          Login(ws, [Obj("login") EXCEPT !.username = u])
    \/ \E ws \in Sockets, k \in (Kinds \ {"login"}) \cup {"bogus"} :
          LoginRequired(ws, Obj(k))
    \/ \E ws \in Sockets, r \in RawRooms :
          CreateRoom(ws, [Obj("create_room") EXCEPT !.room = r])
    \/ \E ws \in Sockets, r \in RawRooms :
          JoinRoom(ws, [Obj("join_room") EXCEPT !.room = r])
    \/ \E ws \in Sockets : LeaveRoom(ws, Obj("leave_room"))
    \/ \E ws \in Sockets, r \in RawTargetRooms, x \in RawTexts, ts \in Clock :
          /\ Pushed < MaxMsgs
          /\ Message(ws, [Obj("message") EXCEPT !.room = r, !.text = x], ts)
    \/ \E ws \in Sockets, t \in RawTargets, x \in RawTexts, ts \in Clock :
          /\ Pushed < MaxMsgs
          /\ Dm(ws, [Obj("dm") EXCEPT !.to = t, !.text = x], ts)
    \/ \E ws \in Sockets, r \in RawTargetRooms :
          History(ws, [Obj("history") EXCEPT !.room = r])
    \/ \E ws \in Sockets : UnknownKind(ws, Obj("bogus"))
    \/ \E ws \in Sockets : Close(ws)

Spec == Init /\ [][Next]_vars

-----------------------------------------------------------------------------
(* The store: the handlers that write a log, with enough pushes to         *)
(* overflow one.                                                           *)

StoreSockets == 1..MaxStoreConn

NextStore ==
    \/ nextUserId <= MaxStoreConn /\ Connection
    \/ \E ws \in StoreSockets, u \in RawNames :
          Login(ws, [Obj("login") EXCEPT !.username = u])
    \/ \E ws \in StoreSockets, r \in RawTargetRooms, x \in RawTexts, ts \in Clock :
          /\ Pushed < MaxPushes
          /\ Message(ws, [Obj("message") EXCEPT !.room = r, !.text = x], ts)
    \/ \E ws \in StoreSockets, t \in RawTargets, x \in RawTexts, ts \in Clock :
          /\ Pushed < MaxPushes
          /\ Dm(ws, [Obj("dm") EXCEPT !.to = t, !.text = x], ts)

SpecStore == Init /\ [][NextStore]_vars

-----------------------------------------------------------------------------
(* Direct messages among three connections that come and go.               *)

DmSockets == 1..MaxDmConn

NextDm ==
    \/ nextUserId <= MaxDmConn /\ Connection
    \/ \E ws \in DmSockets, u \in RawNames :
          Login(ws, [Obj("login") EXCEPT !.username = u])
    \/ \E ws \in DmSockets, t \in RawTargets, x \in RawTexts, ts \in Clock :
          /\ Pushed < MaxMsgs
          /\ Dm(ws, [Obj("dm") EXCEPT !.to = t, !.text = x], ts)
    \/ \E ws \in DmSockets : Close(ws)

SpecDm == Init /\ [][NextDm]_vars

-----------------------------------------------------------------------------
(* Vocabulary of the properties.                                           *)

Registered == {clients[i].id : i \in 1..Len(clients)}
RoomNames == {rooms[j].name : j \in 1..Len(rooms)}
Members(r) == IF RoomsHas(rooms, r) THEN Range(RoomsGet(rooms, r)) ELSE {}
MetaOf(ws) == ClientsGet(clients, ws)

\* the receivers of the events of one type the last callback sent
Receivers(type) == {sent[i].to : i \in {k \in 1..Len(sent) : sent[k].msg.type = type}}

\* what the last callback sent to one socket, in order
RECURSIVE SentTo(_, _)
SentTo(out, ws) ==
    IF out = <<>> THEN <<>>
    ELSE (IF Head(out).to = ws THEN <<Head(out).msg>> ELSE <<>>) \o SentTo(Tail(out), ws)

\* the last callback was the message handler, given an object of this type
Got(type) ==
    event.kind = "message" /\ event.data.json = "object" /\ event.data.type = type

\* C1: for every registered session s and every room r, s's room field is r
\* if and only if s is in the membership set of r.
C1_RoomFieldIffMember ==
    \A s \in Registered :
        /\ Truthy(MetaOf(s).room) => MetaOf(s).room \in RoomNames
        /\ \A r \in RoomNames : (MetaOf(s).room = r) <=> (s \in Members(r))

\* C2: a login by a session that has already logged in leaves the session a
\* member of exactly one room's membership set.
C2_ReloginOneMembership ==
    [][ ( /\ event'.kind = "message"
          /\ event'.data.json = "object"
          /\ event'.data.type = "login"
          /\ ClientsHas(clients, event'.ws)
          /\ ClientsGet(clients, event'.ws).username # Null )
        => Cardinality({j \in 1..Len(rooms') :
                           event'.ws \in Range(rooms'[j].members)}) = 1 ]_vars

\* C3: a message event of an identified session is delivered to every current
\* member of the target room, and to no session whose current room is another
\* room or none.
C3_MessageToRoomOnly ==
    ( /\ Got("message")
      /\ Truthy(MetaOf(event.ws).username)
      /\ Truthy(MessageRoom(MetaOf(event.ws), event.data)) )
    => LET room == MessageRoom(MetaOf(event.ws), event.data)
       IN  /\ \A s \in Registered :
                 s \in Members(room) => s \in Receivers("room_message")
           /\ \A s \in Receivers("room_message") : MetaOf(s).room = room

\* the last step ran the message handler on an object of this type
Handles(type) ==
    /\ event'.kind = "message"
    /\ event'.data.json = "object"
    /\ event'.data.type = type
    /\ ClientsHas(clients, event'.ws)

\* C4: a message event of an identified session that names no room, from a
\* session with no current room, sends one error to that session and nothing
\* else, and leaves every room log and every DM log as it was.
C4_NoRoomErrorOnly ==
    [][ ( /\ Handles("message")
          /\ Truthy(ClientsGet(clients, event'.ws).username)
          /\ ~Truthy(event'.data.room)
          /\ ~Truthy(ClientsGet(clients, event'.ws).room) )
        => /\ db' = db
           /\ Len(sent') = 1
           /\ sent'[1].to = event'.ws
           /\ sent'[1].msg.type = "error" ]_vars

\* reached: an identified session that left its room got the error
C4_Witness ==
    /\ Got("message")
    /\ Truthy(MetaOf(event.ws).username)
    /\ ~Truthy(event.data.room)
    /\ MetaOf(event.ws).room = Null
    /\ Len(clients) = 2
    /\ sent = <<[to |-> event.ws, msg |-> ErrorMsg("Not in a room")]>>

\* C5: an event other than login from a session with no display name is
\* answered with one error to that session, and the registry, the room
\* directory and the store are the same before and after.
C5_LoginRequiredNoChange ==
    [][ ( /\ event'.kind = "message"
          /\ event'.data.json = "object"
          /\ event'.data.type # "login"
          /\ ClientsHas(clients, event'.ws)
          /\ ~Truthy(ClientsGet(clients, event'.ws).username) )
        => /\ clients' = clients
           /\ rooms' = rooms
           /\ db' = db
           /\ Len(sent') = 1
           /\ sent'[1].to = event'.ws
           /\ sent'[1].msg.type = "error" ]_vars

\* reached: join_room refused for a session whose login left its name empty
C5_Witness ==
    /\ Got("join_room")
    /\ MetaOf(event.ws).username = <<>>
    /\ MetaOf(event.ws).room = Lobby
    /\ sent = <<[to |-> event.ws, msg |-> ErrorMsg("Please login first.")]>>

\* C6: a payload that does not parse, or whose kind is none of the known
\* kinds, gets no reply and changes nothing, from any session.
C6_MalformedDropped ==
    [][ ( /\ event'.kind = "message"
          /\ \/ event'.data.json \in {"invalid", "null"}
             \/ event'.data.json = "object" /\ event'.data.type \notin Kinds )
        => /\ sent' = <<>>
           /\ UNCHANGED <<clients, rooms, nextUserId, db, crashed>> ]_vars

C8_DmOneKey ==
    \A k \in DOMAIN db.dms : \A i \in 1..Len(db.dms[k]) :
        LET e == db.dms[k][i]
        IN  /\ k = HttpDmKey(e.from, e.to)
            /\ k = HttpDmKey(e.to, e.from)
            /\ \A k2 \in DOMAIN db.dms : \A j \in 1..Len(db.dms[k2]) :
                  (db.dms[k2][j].from = e.to /\ db.dms[k2][j].to = e.from) => k2 = k

\* reached: one log holds a dm and the reply to it, between two names the
\* sort has to swap in one of the two directions
C8_Witness ==
    \E k \in DOMAIN db.dms :
        /\ Len(db.dms[k]) = 2
        /\ db.dms[k][1].from = db.dms[k][2].to
        /\ db.dms[k][1].to = db.dms[k][2].from
        /\ db.dms[k][1].from # db.dms[k][1].to

\* the first registered session, in connection order, with this display name
FirstNamed(to) ==
    {clients[i].id : i \in {n \in 1..Len(clients) :
        /\ clients[n].username = to
        /\ \A m \in 1..(n - 1) : clients[m].username # to}}

C10_LoginReplyOrder ==
    /\ event.kind = "connection" =>
          SentTo(sent, event.ws) = <<WelcomeMsg>>
    /\ Got("login") =>
          LET mine == SentTo(sent, event.ws)
          IN  /\ Len(mine) >= 3
              /\ mine[1].type = "login_success"
              /\ mine[1].room = Lobby
              /\ mine[2].type = "history"
              /\ mine[2].room = Lobby
              /\ mine[3].type = "presence"
              /\ \E i \in 1..Len(mine[3].users) :
                    /\ mine[3].users[i].username = MetaOf(event.ws).username
                    /\ mine[3].users[i].room = Lobby

\* the snapshot a presence carries: name and room of every identified session
Snapshot(cl) ==
    LET named == {i \in 1..Len(cl) : Truthy(cl[i].username)}
        nth(n) == CHOOSE i \in named : Cardinality({j \in named : j < i}) = n - 1
    IN  [n \in 1..Cardinality(named) |->
            [username |-> cl[nth(n)].username, room |-> cl[nth(n)].room]]

\* C11: when a session whose current room is r disconnects, every session
\* still in r's membership gets the notification that it disconnected, and
\* every remaining registered session gets a presence made of the remaining
\* sessions only.
C11_DisconnectNotifies ==
    [][ ( /\ event'.kind = "close"
          /\ ClientsHas(clients, event'.ws)
          /\ Truthy(ClientsGet(clients, event'.ws).room) )
        => LET meta == ClientsGet(clients, event'.ws)
               name == IF Truthy(meta.username) THEN meta.username ELSE UserN(meta.id)
               remaining == {clients'[i].id : i \in 1..Len(clients')}
               inRoom == {s \in remaining :
                            \E j \in 1..Len(rooms') :
                               rooms'[j].name = meta.room /\ s \in Range(rooms'[j].members)}
           IN  /\ event'.ws \notin remaining
               /\ remaining = {clients[i].id : i \in 1..Len(clients)} \ {event'.ws}
               /\ \A s \in inRoom : \E i \in 1..Len(sent') :
                     /\ sent'[i].to = s
                     /\ sent'[i].msg = NotificationMsg(name \o Disconnected)
               /\ \A s \in remaining : \E i \in 1..Len(sent') :
                     /\ sent'[i].to = s
                     /\ sent'[i].msg.type = "presence"
                     /\ sent'[i].msg.users = Snapshot(clients')
                     /\ Len(sent'[i].msg.users) =
                           Cardinality({k \in 1..Len(clients) :
                               /\ clients[k].id # event'.ws
                               /\ Truthy(clients[k].username)}) ]_vars

\* reached: a session left a room where an identified session remains, which
\* got the presence and then the notification
C11_Witness ==
    /\ event.kind = "close"
    /\ Len(clients) = 1
    /\ Truthy(clients[1].username)
    /\ clients[1].room = G
    /\ Len(sent) = 2
    /\ sent[1].msg = PresenceMsg(<<[username |-> clients[1].username, room |-> G]>>)
    /\ sent[2].msg.type = "notification"
    /\ sent[2].to = clients[1].id

\* every registered channel got a presence carrying the current snapshot
PresenceToAll ==
    \A s \in Registered : \E i \in 1..Len(sent) :
        sent[i].to = s /\ sent[i].msg = PresenceMsg(Snapshot(clients))

\* C12: after every login, join_room, leave_room and disconnect that is
\* handled, a presence carrying the current snapshot is sent to every
\* registered channel, identified or not.
C12_PresenceAfterChange ==
    ( \/ Got("login")
      \/ /\ Got("join_room")
         /\ Truthy(MetaOf(event.ws).username)
         /\ Trim(String(event.data.room)) # <<>>
      \/ Got("leave_room") /\ Truthy(MetaOf(event.ws).username)
      \/ event.kind = "close" )
    => PresenceToAll

\* C13: every member of every room's membership set is a registered
\* session; after a disconnect the session is in no membership set.
C13_NoDanglingMembership ==
    \A r \in RoomNames : Members(r) \subseteq Registered

\* C14: after a login the session's name is never empty: it is the supplied
\* name with surrounding white space removed, or User<id> when the supplied
\* name is absent, empty or only white space.
C14_LoginNameNonEmpty ==
    Got("login") =>
        LET raw  == event.data.username
            meta == MetaOf(event.ws)
            bare == IF raw = Undefined THEN <<>> ELSE Trim(raw)
        IN  /\ meta.username # <<>>
            /\ meta.username = IF bare = <<>> THEN UserN(meta.id) ELSE bare

-----------------------------------------------------------------------------
(* Typing indicators: sessions that log in, move between rooms and set     *)
(* their typing flag.                                                       *)

MaxTypingConn == 2

TypingSockets == 1..MaxTypingConn

NextTyping ==
    \/ nextUserId <= MaxTypingConn /\ Connection
    \/ \E ws \in TypingSockets, u \in RawNames :
          Login(ws, [Obj("login") EXCEPT !.username = u])
    \/ \E ws \in TypingSockets, r \in RawRooms :
          JoinRoom(ws, [Obj("join_room") EXCEPT !.room = r])
    \/ \E ws \in TypingSockets : LeaveRoom(ws, Obj("leave_room"))
    \/ \E ws \in TypingSockets, b \in BOOLEAN :
          Typing(ws, [Obj("typing") EXCEPT !.isTyping = b])
    \/ \E ws \in TypingSockets : Close(ws)

SpecTyping == Init /\ [][NextTyping]_vars

\* C15: a typing event of an identified session sets the session's typing
\* flag to the given value and sends a typing event to every other member
\* of the session's current room; the sender receives none, and no session
\* outside the room receives one.
C15_TypingToOthers ==
    (Got("typing") /\ Truthy(MetaOf(event.ws).username)) =>
        /\ MetaOf(event.ws).typing = event.data.isTyping
        /\ Receivers("typing") = Members(MetaOf(event.ws).room) \ {event.ws}

-----------------------------------------------------------------------------
(* Room names: create_room and join_room with a room field that is absent, *)
(* empty, white space or a name.                                            *)

MaxRoomConn == 2

RoomSockets == 1..MaxRoomConn

AnyRooms == {Undefined, <<>>, <<" ">>, G}

NextRooms ==
    \/ nextUserId <= MaxRoomConn /\ Connection
    \/ \E ws \in RoomSockets, u \in RawNames :
          Login(ws, [Obj("login") EXCEPT !.username = u])
    \/ \E ws \in RoomSockets, r \in AnyRooms :
          CreateRoom(ws, [Obj("create_room") EXCEPT !.room = r])
    \/ \E ws \in RoomSockets, r \in AnyRooms :
          JoinRoom(ws, [Obj("join_room") EXCEPT !.room = r])
    \/ \E ws \in RoomSockets : Close(ws)

SpecRooms == Init /\ [][NextRooms]_vars

\* the room field is absent, empty or only white space
BlankRoom(r) == r = Undefined \/ Trim(r) = <<>>

\* C16: a create_room or join_room of an identified session whose room name
\* is absent, empty or only white space has no effect: no room is created,
\* no membership or room field changes, nothing is stored and nothing sent.
C16_BlankRoomNoEffect ==
    [][ ( /\ Handles("create_room") \/ Handles("join_room")
          /\ Truthy(ClientsGet(clients, event'.ws).username)
          /\ BlankRoom(event'.data.room) )
        => /\ clients' = clients
           /\ rooms' = rooms
           /\ db' = db
           /\ sent' = <<>> ]_vars

\* C19: rooms are never deleted: the set of room names only grows during
\* the life of the process, whatever the sessions do.
C19_RoomsOnlyGrow ==
    [][RoomNames \subseteq RoomNames']_vars

\* a session left its room, and every room of the directory, g included, is
\* now empty and still listed
C19_Witness ==
    /\ Got("leave_room")
    /\ MetaOf(event.ws).room = Null
    /\ RoomNames = {Lobby, G}
    /\ \A r \in RoomNames : Members(r) = {}

-----------------------------------------------------------------------------
(* Store I/O failures.  writeDB has no try: when fs.writeFileSync throws,  *)
(* the exception leaves the message callback uncaught and the process      *)
(* ends; memory is what the handler had done before the call, and nothing  *)
(* after the call is sent.  readDB catches every failure of the read or of *)
(* the parse and returns { rooms: {}, dms: {} }.                            *)

\* the callback that ran handled this payload and met this I/O failure
FailedIO(ws, data, what) ==
    event' = [kind |-> "message", ws |-> ws, data |-> data, fault |-> what]

\* login, writeDB(db) throws
LoginWriteFails(ws, data) ==
    LET meta == ClientsGet(clients, ws)
        meta1 == [meta EXCEPT !.username = LoginName(meta, data), !.room = Lobby]
    IN  /\ Dispatched(ws, data, "login")
        /\ FailedIO(ws, data, "write")
        /\ clients' = ClientsPut(clients, ws, meta1)
        /\ rooms' = LoginRooms(rooms, ws)
        /\ sent' = <<>>
        /\ crashed' = TRUE
        /\ UNCHANGED <<nextUserId, db, appended>>

\* create_room, writeDB(db) throws
CreateRoomWriteFails(ws, data) ==
    LET room == Trim(String(data.room))
    IN  /\ Dispatched(ws, data, "create_room")
        /\ LoggedIn(ws)
        /\ room # <<>>
        /\ FailedIO(ws, data, "write")
        /\ rooms' = RoomsEnsure(rooms, room)
        /\ sent' = <<>>
        /\ crashed' = TRUE
        /\ UNCHANGED <<clients, nextUserId, db, appended>>

\* join_room, writeDB(db) throws
JoinRoomWriteFails(ws, data) ==
    LET meta == ClientsGet(clients, ws)
        room == Trim(String(data.room))
        rooms1 == LeaveRooms(rooms, meta)
    IN  /\ Dispatched(ws, data, "join_room")
        /\ LoggedIn(ws)
        /\ room # <<>>
        /\ FailedIO(ws, data, "write")
        /\ rooms' = RoomsAdd(RoomsEnsure(rooms1, room), room, ws)
        /\ clients' = ClientsPut(clients, ws, [meta EXCEPT !.room = room])
        /\ sent' = LeaveSends(rooms, clients, meta)
        /\ crashed' = TRUE
        /\ UNCHANGED <<nextUserId, db, appended>>

\* message, writeDB(db) throws
MessageWriteFails(ws, data) ==
    /\ Dispatched(ws, data, "message")
    /\ LoggedIn(ws)
    /\ Truthy(MessageRoom(ClientsGet(clients, ws), data))
    /\ FailedIO(ws, data, "write")
    /\ sent' = <<>>
    /\ crashed' = TRUE
    /\ UNCHANGED <<clients, rooms, nextUserId, db, appended>>

\* dm, writeDB(db) throws
DmWriteFails(ws, data) ==
    /\ Dispatched(ws, data, "dm")
    /\ LoggedIn(ws)
    /\ DmTarget(data) # <<>>
    /\ FailedIO(ws, data, "write")
    /\ sent' = <<>>
    /\ crashed' = TRUE
    /\ UNCHANGED <<clients, rooms, nextUserId, db, appended>>

\* message, readDB() takes its catch branch
MessageReadFails(ws, data, ts) ==
    LET meta == ClientsGet(clients, ws)
        room == MessageRoom(meta, data)
        text == TextOf(data)
        entry == [username |-> meta.username, text |-> text, ts |-> ts]
        d == EmptyDB
    IN  /\ Dispatched(ws, data, "message")
        /\ LoggedIn(ws)
        /\ Truthy(room)
        /\ FailedIO(ws, data, "read")
        /\ db' = [d EXCEPT !.rooms =
                    ObjPut(d.rooms, room, PushCapped(ObjLog(d.rooms, room), entry))]
        /\ appended' = [appended EXCEPT !.rooms =
                    ObjPut(@, room, Append(ObjLog(@, room), entry))]
        /\ sent' = BroadcastToRoom(rooms, clients, room,
                     [type |-> "room_message", room |-> room,
                      username |-> meta.username, text |-> text, ts |-> ts])
        /\ UNCHANGED <<clients, rooms, nextUserId, crashed>>

\* dm, readDB() takes its catch branch
DmReadFails(ws, data, ts) ==
    LET meta == ClientsGet(clients, ws)
        to == DmTarget(data)
        text == TextOf(data)
        targetWs == FindByName(clients, to)
        key == DmKey(meta.username, to)
        entry == [from |-> meta.username, to |-> to, text |-> text, ts |-> ts]
        d == EmptyDB
    IN  /\ Dispatched(ws, data, "dm")
        /\ LoggedIn(ws)
        /\ to # <<>>
        /\ FailedIO(ws, data, "read")
        /\ db' = [d EXCEPT !.dms =
                    ObjPut(d.dms, key, PushCapped(ObjLog(d.dms, key), entry))]
        /\ appended' = [appended EXCEPT !.dms =
                    ObjPut(@, key, Append(ObjLog(@, key), entry))]
        /\ sent' = DmSends(clients, targetWs, ws,
                     [type |-> "dm_message", from |-> meta.username,
                      to |-> to, text |-> text, ts |-> ts])
        /\ UNCHANGED <<clients, rooms, nextUserId, crashed>>

MaxFaultConn == 2

MaxFaultPushes == 2

FaultSockets == 1..MaxFaultConn

NextFault ==
    \/ nextUserId <= MaxFaultConn /\ Connection
    \/ \E ws \in FaultSockets, u \in RawNames :
          Login(ws, [Obj("login") EXCEPT !.username = u])
    \/ \E ws \in FaultSockets, r \in RawTargetRooms, x \in RawTexts, ts \in Clock :
          /\ Pushed < MaxFaultPushes
          /\ Message(ws, [Obj("message") EXCEPT !.room = r, !.text = x], ts)
    \/ \E ws \in FaultSockets, t \in RawTargets, x \in RawTexts, ts \in Clock :
          /\ Pushed < MaxFaultPushes
          /\ Dm(ws, [Obj("dm") EXCEPT !.to = t, !.text = x], ts)
    \/ \E ws \in FaultSockets, u \in RawNames :
          LoginWriteFails(ws, [Obj("login") EXCEPT !.username = u])
    \/ \E ws \in FaultSockets, r \in RawRooms :
          CreateRoomWriteFails(ws, [Obj("create_room") EXCEPT !.room = r])
    \/ \E ws \in FaultSockets, r \in RawRooms :
          JoinRoomWriteFails(ws, [Obj("join_room") EXCEPT !.room = r])
    \/ \E ws \in FaultSockets, r \in RawTargetRooms, x \in RawTexts :
          MessageWriteFails(ws, [Obj("message") EXCEPT !.room = r, !.text = x])
    \/ \E ws \in FaultSockets, t \in RawTargets, x \in RawTexts :
          DmWriteFails(ws, [Obj("dm") EXCEPT !.to = t, !.text = x])
    \/ \E ws \in FaultSockets, r \in RawTargetRooms, x \in RawTexts, ts \in Clock :
          /\ Pushed < MaxFaultPushes
          /\ MessageReadFails(ws, [Obj("message") EXCEPT !.room = r, !.text = x], ts)
    \/ \E ws \in FaultSockets, t \in RawTargets, x \in RawTexts, ts \in Clock :
          /\ Pushed < MaxFaultPushes
          /\ DmReadFails(ws, [Obj("dm") EXCEPT !.to = t, !.text = x], ts)

SpecFault == Init /\ [][NextFault]_vars

\* the last callback met a failure of the store write
WriteFailed == "fault" \in DOMAIN event /\ event.fault = "write"

\* the type of the first event the handler of a type sends after its write
ReplyType(type) ==
    CASE type = "login" -> "login_success"
      [] type = "create_room" -> "room_list"
      [] type = "join_room" -> "history"
      [] type = "message" -> "room_message"
      [] type = "dm" -> "dm_message"

\* C17: if the store write fails while a login, create_room, join_room,
\* message or dm is handled, the process keeps running, the session is a
\* member of the room its room field names, and the sender still receives
\* the handler's reply (for a message: the members of the target room
\* receive the room_message).
C17_WriteFailureTolerated ==
    WriteFailed =>
        LET meta == MetaOf(event.ws)
            type == event.data.type
        IN  /\ ~crashed
            /\ Truthy(meta.room) => event.ws \in Members(meta.room)
            /\ IF type = "message"
               THEN (Members(MessageRoom(meta, event.data)) \cap Registered)
                        \subseteq Receivers(ReplyType(type))
               ELSE event.ws \in Receivers(ReplyType(type))

\* the logs of a store object other than the log under one key are the same
\* before and after, and no other key appeared
OthersKept(before, after, key) ==
    /\ DOMAIN after \subseteq DOMAIN before \cup {key}
    /\ \A k \in DOMAIN before \ {key} : k \in DOMAIN after /\ after[k] = before[k]

\* C18: handling one message or dm event changes only the log of the
\* event's own store key: every other room log and every other DM log is
\* the same before and after, also when the store read of the handler fails.
C18_OnlyOwnLog ==
    [][ /\ Handles("message") =>
            /\ OthersKept(db.rooms, db'.rooms,
                   MessageRoom(ClientsGet(clients, event'.ws), event'.data))
            /\ db'.dms = db.dms
        /\ Handles("dm") =>
            /\ OthersKept(db.dms, db'.dms,
                   DmKey(ClientsGet(clients, event'.ws).username, DmTarget(event'.data)))
            /\ db'.rooms = db.rooms ]_vars

-----------------------------------------------------------------------------
(* Direct messages between display names that contain the separator of    *)
(* the DM key.                                                              *)

MaxPairConn == 2

MaxPairPushes == 2

PairSockets == 1..MaxPairConn

\* data.username of a login
PairNames == {A, <<"a", "|", "b">>}

\* data.to of a dm
PairTargets == {<<"b", "|", "c">>, <<"c">>}

NextPairs ==
    \/ nextUserId <= MaxPairConn /\ Connection
    \/ \E ws \in PairSockets, u \in PairNames :
          Login(ws, [Obj("login") EXCEPT !.username = u])
    \/ \E ws \in PairSockets, t \in PairTargets, x \in RawTexts, ts \in Clock :
          /\ Pushed < MaxPairPushes
          /\ Dm(ws, [Obj("dm") EXCEPT !.to = t, !.text = x], ts)
    \/ \E ws \in PairSockets : Close(ws)

SpecPairs == Init /\ [][NextPairs]_vars

\* the unordered pair of participants of a stored DM
PairOf(e) == {e.from, e.to}

\* C20: two different unordered pairs of participants are never stored
\* under the same DM key: all entries of one DM log are between the same
\* two names, also for names that contain the separator "|".
C20_KeysSeparatePairs ==
    \A k \in DOMAIN db.dms :
        \A i, j \in 1..Len(db.dms[k]) : PairOf(db.dms[k][i]) = PairOf(db.dms[k][j])

====
